---- MODULE Spec2Model ----
(***************************************************************************)
(* Scene / object / event management core of roguepygame (root.py).        *)
(*                                                                         *)
(* Every Scene, ObjectManager and GameObject instance ever constructed is  *)
(* an index into the sequences scenes, managers and objs, so "the same     *)
(* instance" is "the same index".  Python's None is the index 0.           *)
(***************************************************************************)
EXTENDS Integers, Sequences, FiniteSets, TLC

VARIABLES
    scene,          \* SceneManager.scene: index into scenes, 0 for None
    object_manager, \* SceneManager.object_manager: index into managers
    next_scene,     \* SceneManager.next_scene: the pending slot
    saved_scenes,   \* SceneManager.saved_scenes: save name -> scene index
    scenes,         \* every Scene constructed: [cls, kwargs, object_manager]
    managers,       \* every ObjectManager constructed: [objects, groups, listeners]
    objs,           \* every GameObject constructed
    hooks,          \* the calls the last operation made, in order
    op,             \* the last operation and its arguments
    err,            \* the exception the last operation raised, "none" if it returned
    first_request,  \* history: first request that returned since the last end_frame
    parked,         \* history: save name -> scene and manager active at the save
    added,          \* history: per manager, the registrations in call order
    clock,          \* pygame.time.get_ticks(): the driver's millisecond clock
    iters,          \* every GameObjectIterator constructed
    timer_history   \* history: per Timer, its fires and its last suspension

vars == << scene, object_manager, next_scene, saved_scenes, scenes, managers,
           objs, hooks, op, err, first_request, parked, added, clock, iters,
           timer_history >>

\* ------------------------------------------------------------------ bounds
MaxScenes == 3
MaxManagers == 3
MaxObjects == 2
MaxGameObjects == 3
MaxLive == 3
MaxListeners == 2
MaxSubscriptions == 2
MaxBatch == 2

\* ------------------------------------------------------------ input domains
None == 0
NoneStr == "<None>"
SceneTypes == {"SceneA", "SceneB"}
SaveNames == {"paused", "menu"}
KwargSets == {"kw0"}
GroupNames == {"walls"}
MOUSEBUTTONDOWN == "MOUSEBUTTONDOWN"
MOUSEMOTION == "MOUSEMOTION"
EventKinds == {MOUSEBUTTONDOWN, MOUSEMOTION}

\* ----------------------------------------------------------- list helpers
Contains(s, x) == \E i \in 1..Len(s) : s[i] = x

\* list.index(x): first position of x
IndexOf(s, x) == CHOOSE i \in 1..Len(s) : s[i] = x /\ \A j \in 1..(i - 1) : s[j] # x

\* list.remove(x) on a list that holds x: drops the first occurrence
RemoveFirst(s, x) ==
    LET i == IndexOf(s, x)
    IN  SubSeq(s, 1, i - 1) \o SubSeq(s, i + 1, Len(s))

Count(s, x) == Cardinality({i \in 1..Len(s) : s[i] = x})

\* ----------------------------------------------------------- dict helpers
EmptyDict == [k \in {} |-> 0]
DictPut(d, k, v) == [x \in (DOMAIN d) \cup {k} |-> IF x = k THEN v ELSE d[x]]
DictDel(d, k) == [x \in (DOMAIN d) \ {k} |-> d[x]]

\* -------------------------------------------------------------- GameObject
\* hasattr(x, 'layer'): DrawableObject.__init__ sets it, GameObject and Timer do not
HasLayer(O, x) == O[x].cls \in {"DrawableObject", "ClickableObject"}

layer_sort_key(O, x) == IF HasLayer(O, x) THEN O[x].layer ELSE 0

\* ------------------------------------------------------------ EventManager
\* the operators take and return the listeners dict: kind -> list of listeners
subscribe(L, event_type, obj) ==
    IF event_type \in DOMAIN L
    THEN [L EXCEPT ![event_type] = Append(@, obj)]
    ELSE DictPut(L, event_type, << obj >>)

\* mutant: the emptied list is left in the table
unsubscribe_keeps_entry(L, event_type, obj) ==
    IF event_type \in DOMAIN L /\ Contains(L[event_type], obj)
    THEN [L EXCEPT ![event_type] = RemoveFirst(@, obj)]
    ELSE L

unsubscribe(L, event_type, obj) ==
    IF event_type \in DOMAIN L
    THEN LET l1 == IF Contains(L[event_type], obj)
                   THEN RemoveFirst(L[event_type], obj)
                   ELSE L[event_type]
         IN  IF l1 = << >> THEN DictDel(L, event_type)
                           ELSE [L EXCEPT ![event_type] = l1]
    ELSE L

\* EventManager.remove_object: unsubscribe under every kind of list(self.listeners)
RECURSIVE UnsubscribeKinds(_, _, _)
UnsubscribeKinds(L, kinds, obj) ==
    IF kinds = {} THEN L
    ELSE LET k == CHOOSE x \in kinds : TRUE
         IN  UnsubscribeKinds(unsubscribe(L, k, obj), kinds \ {k}, obj)

em_remove_object(L, obj) == UnsubscribeKinds(L, DOMAIN L, obj)

\* ------------------------------------------------------------- ObjectGroup
group_add_object(g, obj) == Append(g, obj)

group_remove_object(g, obj) == IF Contains(g, obj) THEN RemoveFirst(g, obj) ELSE g

\* ----------------------------------------------------------- ObjectManager
EmptyManager == [objects |-> << >>, groups |-> EmptyDict, listeners |-> EmptyDict]

\* list.sort(key=layer_sort_key): a stable sort, written as the insertion sort
\* that places each element after the elements whose key is not greater
\* mutant: an unstable sort, equal keys are put in reverse insertion order
RECURSIVE InsertSortedBefore(_, _, _)
InsertSortedBefore(O, s, x) ==
    IF s = << >> THEN << x >>
    ELSE IF layer_sort_key(O, Head(s)) < layer_sort_key(O, x)
         THEN << Head(s) >> \o InsertSortedBefore(O, Tail(s), x)
         ELSE << x >> \o s

RECURSIVE InsertSorted(_, _, _)
InsertSorted(O, s, x) ==
    IF s = << >> THEN << x >>
    ELSE IF layer_sort_key(O, Head(s)) <= layer_sort_key(O, x)
         THEN << Head(s) >> \o InsertSorted(O, Tail(s), x)
         ELSE << x >> \o s

RECURSIVE SortByLayer(_, _)
SortByLayer(O, s) ==
    IF s = << >> THEN << >>
    ELSE InsertSorted(O, SortByLayer(O, SubSeq(s, 1, Len(s) - 1)), s[Len(s)])

add_object_to_group(m, obj, group_name) ==
    LET gs == IF group_name \in DOMAIN m.groups THEN m.groups
              ELSE DictPut(m.groups, group_name, << >>)
    IN  [m EXCEPT !.groups = [gs EXCEPT ![group_name] = group_add_object(@, obj)]]

\* ObjectManager.add_object on manager record m
om_add_object(O, m, obj, group_name) ==
    LET m1 == [m EXCEPT !.objects = SortByLayer(O, Append(m.objects, obj))]
    IN  IF group_name # NoneStr THEN add_object_to_group(m1, obj, group_name) ELSE m1

\* ObjectManager.remove_object on manager record m: [m, err].  list.remove raises
\* ValueError when obj is not in the live list, after the event manager was cleaned
om_remove_object(m, obj) ==
    LET m1 == [m EXCEPT !.listeners = em_remove_object(m.listeners, obj)]
    IN  IF ~Contains(m1.objects, obj)
        THEN [m |-> m1, err |-> "ValueError"]
        ELSE [m |-> [m1 EXCEPT !.objects = RemoveFirst(m1.objects, obj),
                               !.groups = [g \in DOMAIN m1.groups |->
                                              group_remove_object(m1.groups[g], obj)]],
              err |-> "none"]

\* ObjectManager.clear_objects: remove_object for every entry of a copy of the list
RECURSIVE RemoveAll(_, _)
RemoveAll(r, copy) ==
    IF copy = << >> \/ r.err # "none" THEN r
    ELSE RemoveAll(om_remove_object(r.m, Head(copy)), Tail(copy))

clear_objects(m) == RemoveAll([m |-> m, err |-> "none"], m.objects)

\* the calls clear_objects/save_objects/load_objects make, one per list entry
CallsOn(name, objects) == [i \in 1..Len(objects) |-> << name, objects[i] >>]

\* ------------------------------------------------------- program (driver)
\* Game.get_object_manager(): the SceneManager's active ObjectManager
get_object_manager == object_manager

\* No handler in the sources catches an exception: it ends the frame loop
Running == scene # None /\ err = "none"

\* ------------------------------------------------------------ SceneManager
\* next_scene is None, or (type, kwargs, manager), or (instance, None, manager)
NoNext == [kind |-> "none", cls |-> NoneStr, kwargs |-> NoneStr, inst |-> None, mgr |-> None]

\* history: the last operation, its arguments, and the slot's kind when called
Op(name, sname, cls, kwargs, obj) ==
    [name |-> name, sname |-> sname, cls |-> cls, kwargs |-> kwargs, obj |-> obj,
     slot |-> next_scene.kind]

NoRequest == [op |-> "none", sname |-> NoneStr, cls |-> NoneStr, kwargs |-> NoneStr,
              scene |-> None, mgr |-> None]

\* history: the first request since the last end_frame that returned normally,
\* with the scene and manager it refers to (the active ones, or the parked ones)
NoteRequest(name, sname, cls, kw) ==
    first_request' =
        IF first_request # NoRequest THEN first_request
        ELSE IF name = "load_scene"
             THEN [op |-> name, sname |-> sname, cls |-> cls, kwargs |-> kw,
                   scene |-> parked[sname].scene, mgr |-> parked[sname].mgr]
             ELSE [op |-> name, sname |-> sname, cls |-> cls, kwargs |-> kw,
                   scene |-> scene, mgr |-> object_manager]

\* Scene.__init__ called by scene(self.object_manager, **kwargs)
NewScene(cls, kw, m) == [cls |-> cls, kwargs |-> kw, object_manager |-> m]

start_program(cls, kw) ==
    /\ scene = None /\ err = "none"
    /\ Len(scenes) < MaxScenes
    /\ scenes' = Append(scenes, NewScene(cls, kw, object_manager))
    /\ scene' = Len(scenes) + 1
    /\ hooks' = << << "__init__", Len(scenes) + 1 >>, << "start", Len(scenes) + 1 >> >>
    /\ UNCHANGED << clock, iters, timer_history >>
    /\ op' = Op("start_program", NoneStr, cls, kw, None)
    /\ UNCHANGED << object_manager, next_scene, saved_scenes, managers, objs, err,
                    first_request, parked, added >>

\* mutant: the slot is overwritten by every call (the None test is dropped)
go_to_last_wins(cls, kw) ==
    /\ Running
    /\ next_scene' = [kind |-> "type", cls |-> cls, kwargs |-> kw,
                      inst |-> None, mgr |-> object_manager]
    /\ NoteRequest("go_to", NoneStr, cls, kw)
    /\ hooks' = << >>
    /\ UNCHANGED << clock, iters, timer_history >>
    /\ op' = Op("go_to", NoneStr, cls, kw, None)
    /\ UNCHANGED << scene, object_manager, saved_scenes, scenes, managers, objs, err,
                    parked, added >>

go_to(cls, kw) ==
    /\ Running
    /\ next_scene' = IF next_scene = NoNext
                     THEN [kind |-> "type", cls |-> cls, kwargs |-> kw,
                           inst |-> None, mgr |-> object_manager]
                     ELSE next_scene
    /\ NoteRequest("go_to", NoneStr, cls, kw)
    /\ hooks' = << >>
    /\ UNCHANGED << clock, iters, timer_history >>
    /\ op' = Op("go_to", NoneStr, cls, kw, None)
    /\ UNCHANGED << scene, object_manager, saved_scenes, scenes, managers, objs, err,
                    parked, added >>

\* mutant: the fresh ObjectManager becomes the active one at the call
go_to_with_save_eager(name, cls, kw) ==
    /\ Running
    /\ next_scene = NoNext => Len(managers) < MaxManagers
    /\ IF next_scene = NoNext
       THEN /\ saved_scenes' = DictPut(saved_scenes, name, scene)
            /\ managers' = Append(managers, EmptyManager)
            /\ added' = Append(added, << >>)
            /\ object_manager' = Len(managers) + 1
            /\ next_scene' = [kind |-> "type", cls |-> cls, kwargs |-> kw,
                              inst |-> None, mgr |-> Len(managers) + 1]
       ELSE UNCHANGED << saved_scenes, managers, added, next_scene, object_manager >>
    /\ NoteRequest("go_to_with_save", name, cls, kw)
    /\ parked' = IF first_request = NoRequest
                 THEN DictPut(parked, name, [scene |-> scene, mgr |-> object_manager])
                 ELSE parked
    /\ hooks' = << >>
    /\ UNCHANGED << clock, iters, timer_history >>
    /\ op' = Op("go_to_with_save", name, cls, kw, None)
    /\ UNCHANGED << scene, scenes, objs, err >>

\* mutant: the table is rebuilt with the new entry only
go_to_with_save_forgets(name, cls, kw) ==
    /\ Running
    /\ next_scene = NoNext => Len(managers) < MaxManagers
    /\ IF next_scene = NoNext
       THEN /\ saved_scenes' = DictPut(EmptyDict, name, scene)
            /\ managers' = Append(managers, EmptyManager)
            /\ added' = Append(added, << >>)
            /\ next_scene' = [kind |-> "type", cls |-> cls, kwargs |-> kw,
                              inst |-> None, mgr |-> Len(managers) + 1]
       ELSE UNCHANGED << saved_scenes, managers, added, next_scene >>
    /\ NoteRequest("go_to_with_save", name, cls, kw)
    /\ parked' = IF first_request = NoRequest
                 THEN DictPut(parked, name, [scene |-> scene, mgr |-> object_manager])
                 ELSE parked
    /\ hooks' = << >>
    /\ UNCHANGED << clock, iters, timer_history >>
    /\ op' = Op("go_to_with_save", name, cls, kw, None)
    /\ UNCHANGED << scene, object_manager, scenes, objs, err >>

go_to_with_save(name, cls, kw) ==
    /\ Running
    /\ next_scene = NoNext => Len(managers) < MaxManagers
    /\ IF next_scene = NoNext
       THEN /\ saved_scenes' = DictPut(saved_scenes, name, scene)
            /\ managers' = Append(managers, EmptyManager)
            /\ added' = Append(added, << >>)
            /\ next_scene' = [kind |-> "type", cls |-> cls, kwargs |-> kw,
                              inst |-> None, mgr |-> Len(managers) + 1]
       ELSE UNCHANGED << saved_scenes, managers, added, next_scene >>
    /\ NoteRequest("go_to_with_save", name, cls, kw)
    /\ parked' = IF first_request = NoRequest
                 THEN DictPut(parked, name, [scene |-> scene, mgr |-> object_manager])
                 ELSE parked
    /\ hooks' = << >>
    /\ UNCHANGED << clock, iters, timer_history >>
    /\ op' = Op("go_to_with_save", name, cls, kw, None)
    /\ UNCHANGED << scene, object_manager, scenes, objs, err >>

\* mutant: the restored scene is paired with the manager active at the call
load_scene_current_manager(name) ==
    /\ Running
    /\ IF next_scene = NoNext
       THEN IF name \in DOMAIN saved_scenes
            THEN /\ saved_scenes' = DictDel(saved_scenes, name)
                 /\ next_scene' = [kind |-> "inst", cls |-> NoneStr, kwargs |-> NoneStr,
                                   inst |-> saved_scenes[name], mgr |-> object_manager]
                 /\ err' = "none"
            ELSE /\ err' = "KeyError"
                 /\ UNCHANGED << saved_scenes, next_scene >>
       ELSE /\ err' = "none"
            /\ UNCHANGED << saved_scenes, next_scene >>
    /\ IF err' = "none" /\ name \in DOMAIN parked
       THEN /\ NoteRequest("load_scene", name, NoneStr, NoneStr)
            /\ parked' = IF first_request = NoRequest THEN DictDel(parked, name) ELSE parked
       ELSE UNCHANGED << first_request, parked >>
    /\ hooks' = << >>
    /\ UNCHANGED << clock, iters, timer_history >>
    /\ op' = Op("load_scene", name, NoneStr, NoneStr, None)
    /\ UNCHANGED << scene, object_manager, scenes, managers, objs, added >>

\* mutant: the snapshot is popped before the slot is tested
load_scene_pop_first(name) ==
    /\ Running
    /\ IF name \in DOMAIN saved_scenes
       THEN /\ saved_scenes' = DictDel(saved_scenes, name)
            /\ next_scene' = IF next_scene = NoNext
                             THEN [kind |-> "inst", cls |-> NoneStr, kwargs |-> NoneStr,
                                   inst |-> saved_scenes[name],
                                   mgr |-> scenes[saved_scenes[name]].object_manager]
                             ELSE next_scene
            /\ err' = "none"
       ELSE /\ err' = "KeyError"
            /\ UNCHANGED << saved_scenes, next_scene >>
    /\ IF err' = "none" /\ name \in DOMAIN parked
       THEN /\ NoteRequest("load_scene", name, NoneStr, NoneStr)
            /\ parked' = IF first_request = NoRequest THEN DictDel(parked, name) ELSE parked
       ELSE UNCHANGED << first_request, parked >>
    /\ hooks' = << >>
    /\ UNCHANGED << clock, iters, timer_history >>
    /\ op' = Op("load_scene", name, NoneStr, NoneStr, None)
    /\ UNCHANGED << scene, object_manager, scenes, managers, objs, added >>

load_scene(name) ==
    /\ Running
    /\ IF next_scene = NoNext
       THEN IF name \in DOMAIN saved_scenes
            THEN /\ saved_scenes' = DictDel(saved_scenes, name)
                 /\ next_scene' = [kind |-> "inst", cls |-> NoneStr, kwargs |-> NoneStr,
                                   inst |-> saved_scenes[name],
                                   mgr |-> scenes[saved_scenes[name]].object_manager]
                 /\ err' = "none"
            ELSE /\ err' = "KeyError"
                 /\ UNCHANGED << saved_scenes, next_scene >>
       ELSE /\ err' = "none"
            /\ UNCHANGED << saved_scenes, next_scene >>
    /\ IF err' = "none" /\ name \in DOMAIN parked
       THEN /\ NoteRequest("load_scene", name, NoneStr, NoneStr)
            /\ parked' = IF first_request = NoRequest THEN DictDel(parked, name) ELSE parked
       ELSE UNCHANGED << first_request, parked >>
    /\ hooks' = << >>
    /\ UNCHANGED << clock, iters, timer_history >>
    /\ op' = Op("load_scene", name, NoneStr, NoneStr, None)
    /\ UNCHANGED << scene, object_manager, scenes, managers, objs, added >>

\* mutant: with the same manager, end() is called before the objects are removed
EndFrameTypeEndFirst ==
    LET new == Len(scenes) + 1
        out == managers[object_manager]
        switch == object_manager # next_scene.mgr
        om == IF switch THEN next_scene.mgr ELSE object_manager
    IN  /\ object_manager' = om
        /\ managers' = IF switch THEN managers
                       ELSE [managers EXCEPT ![object_manager] = clear_objects(out).m]
        /\ added' = IF switch THEN added ELSE [added EXCEPT ![object_manager] = << >>]
        /\ scenes' = Append(scenes, NewScene(next_scene.cls, next_scene.kwargs, om))
        /\ scene' = new
        /\ hooks' = (IF switch THEN CallsOn("save_object", out.objects)
                     ELSE << << "end", scene >> >> \o CallsOn("remove_object", out.objects))
                    \o << << "__init__", new >>, << "start", new >> >>

\* mutant: the outgoing manager is cleared and end() is called on every transition
EndFrameTypeAlwaysClears ==
    LET new == Len(scenes) + 1
        out == managers[object_manager]
        switch == object_manager # next_scene.mgr
        om == IF switch THEN next_scene.mgr ELSE object_manager
    IN  /\ object_manager' = om
        /\ managers' = [managers EXCEPT ![object_manager] = clear_objects(out).m]
        /\ added' = [added EXCEPT ![object_manager] = << >>]
        /\ scenes' = Append(scenes, NewScene(next_scene.cls, next_scene.kwargs, om))
        /\ scene' = new
        /\ hooks' = CallsOn("remove_object", out.objects) \o << << "end", scene >> >>
                    \o << << "__init__", new >>, << "start", new >> >>

\* end_frame, pending (type, kwargs, manager): lines 121-130
EndFrameType ==
    LET new == Len(scenes) + 1
        out == managers[object_manager]
        switch == object_manager # next_scene.mgr
        om == IF switch THEN next_scene.mgr ELSE object_manager
    IN  /\ object_manager' = om
        /\ managers' = IF switch THEN managers
                       ELSE [managers EXCEPT ![object_manager] = clear_objects(out).m]
        /\ added' = IF switch THEN added ELSE [added EXCEPT ![object_manager] = << >>]
        /\ scenes' = Append(scenes, NewScene(next_scene.cls, next_scene.kwargs, om))
        /\ scene' = new
        /\ hooks' = (IF switch THEN CallsOn("save_object", out.objects)
                     ELSE CallsOn("remove_object", out.objects) \o << << "end", scene >> >>)
                    \o << << "__init__", new >>, << "start", new >> >>

\* mutant: the restored scene becomes active on the manager that was active
EndFrameInstanceKeepsManager ==
    /\ object_manager' = object_manager
    /\ scene' = next_scene.inst
    /\ hooks' = CallsOn("load_object", managers[object_manager].objects)
    /\ UNCHANGED << managers, added, scenes >>

\* end_frame, pending (instance, None, manager): lines 131-134
EndFrameInstance ==
    /\ object_manager' = next_scene.mgr
    /\ scene' = next_scene.inst
    /\ hooks' = CallsOn("load_object", managers[next_scene.mgr].objects)
    /\ UNCHANGED << managers, added, scenes >>

\* mutant: load_objects() is called outside the if, on every end_frame
EndFrameIdleReload ==
    /\ hooks' = CallsOn("load_object", managers[object_manager].objects)
    /\ UNCHANGED << object_manager, scene, managers, added, scenes >>

\* end_frame, nothing pending: the body of line 120's if is skipped
EndFrameIdle ==
    /\ hooks' = << >>
    /\ UNCHANGED << object_manager, scene, managers, added, scenes >>

end_frame ==
    /\ Running
    /\ (next_scene.kind = "type") => Len(scenes) < MaxScenes
    /\ IF next_scene # NoNext
       THEN IF next_scene.kind = "type" THEN EndFrameType ELSE EndFrameInstance
       ELSE EndFrameIdle
    /\ next_scene' = NoNext
    /\ first_request' = NoRequest
    /\ UNCHANGED << clock, iters, timer_history >>
    /\ op' = Op("end_frame", NoneStr, NoneStr, NoneStr, None)
    /\ UNCHANGED << saved_scenes, objs, err, parked >>

\* ---------------------------------------------- objects made by scene code
\* GameObject.__init__ / DrawableObject.__init__ / ClickableObject.__init__
NewObject(cls, layer) ==
    [cls |-> cls, layer |-> layer, object_manager |-> get_object_manager,
     parent |-> None, child_objects |-> << >>]

\* what the constructor of class cls does to the active manager m:
\* ClickableObject.__init__ subscribes the object to MOUSEBUTTONDOWN
Constructed(m, cls, obj) ==
    IF cls = "ClickableObject"
    THEN [m EXCEPT !.listeners = subscribe(m.listeners, MOUSEBUTTONDOWN, obj)]
    ELSE m

\* scene code makes an object and registers it: Cls(...).add_object(group_name=g)
spawn_object(cls, layer, g) ==
    /\ Running
    /\ Len(objs) < MaxObjects
    /\ LET obj == Len(objs) + 1
           O == Append(objs, NewObject(cls, layer))
           m0 == Constructed(managers[object_manager], cls, obj)
       IN  /\ objs' = O
           /\ managers' = [managers EXCEPT ![object_manager] = om_add_object(O, m0, obj, g)]
           /\ added' = [added EXCEPT ![object_manager] = Append(@, obj)]
           /\ UNCHANGED << clock, iters, timer_history >>
           /\ op' = Op("spawn_object", g, cls, NoneStr, obj)
    /\ hooks' = << >>
    /\ UNCHANGED << scene, object_manager, next_scene, saved_scenes, scenes, err,
                    first_request, parked >>

\* --------------------------------------------------------- specification
\* state after SceneManager.__init__ (which constructs one ObjectManager)
Init ==
    /\ scene = None
    /\ object_manager = 1
    /\ next_scene = NoNext
    /\ saved_scenes = EmptyDict
    /\ scenes = << >>
    /\ managers = << EmptyManager >>
    /\ objs = << >>
    /\ hooks = << >>
    /\ op = [name |-> "__init__", sname |-> NoneStr, cls |-> NoneStr, kwargs |-> NoneStr,
             obj |-> None, slot |-> "none"]
    /\ err = "none"
    /\ first_request = NoRequest
    /\ parked = EmptyDict
    /\ added = << << >> >>
    /\ clock = 0
    /\ iters = << >>
    /\ timer_history = << >>

Next ==
    \/ \E cls \in SceneTypes, kw \in KwargSets : start_program(cls, kw)
    \/ \E cls \in SceneTypes, kw \in KwargSets : go_to(cls, kw)
    \/ \E n \in SaveNames, cls \in SceneTypes, kw \in KwargSets : go_to_with_save(n, cls, kw)
    \/ \E n \in SaveNames : load_scene(n)
    \/ end_frame
    \/ \E g \in GroupNames : spawn_object("ClickableObject", 1, g)

Spec == Init /\ [][Next]_vars

\* =================================================================== objects
\* ------------------------------------------------- GameObject composition
ChildObjects(O, x) == {O[x].child_objects[i].obj : i \in 1..Len(O[x].child_objects)}

ChildKeys(O, x) == {O[x].child_objects[i].key : i \in 1..Len(O[x].child_objects)}

\* self and every transitive child (children are new objects: a forest)
RECURSIVE Subtree(_, _)
Subtree(O, x) == {x} \cup UNION {Subtree(O, c) : c \in ChildObjects(O, x)}

\* add_child's while loop: the first n, n + 1, ... whose str() is not a key
RECURSIVE FirstFreeKey(_, _)
FirstFreeKey(keys, n) == IF ToString(n) \in keys THEN FirstFreeKey(keys, n + 1) ELSE n

\* dict assignment child_objects[key] = child: an existing key keeps its place
SetChild(cs, key, child) ==
    IF \E i \in 1..Len(cs) : cs[i].key = key
    THEN [i \in 1..Len(cs) |-> IF cs[i].key = key THEN [key |-> key, obj |-> child]
                                                   ELSE cs[i]]
    ELSE Append(cs, [key |-> key, obj |-> child])

\* mutant: the automatic key is the number of children, without the while loop
go_add_child_no_probe(O, parent, child_obj, child_name) ==
    LET key == IF child_name = NoneStr
               THEN ToString(Len(O[parent].child_objects))
               ELSE child_name
    IN  [O EXCEPT ![parent].child_objects = SetChild(@, key, child_obj),
                  ![child_obj].parent = parent]

\* GameObject.add_child on the objects O: the new O
go_add_child(O, parent, child_obj, child_name) ==
    LET key == IF child_name = NoneStr
               THEN ToString(FirstFreeKey(ChildKeys(O, parent), Len(O[parent].child_objects)))
               ELSE child_name
    IN  [O EXCEPT ![parent].child_objects = SetChild(@, key, child_obj),
                  ![child_obj].parent = parent]

\* The recursive operations run on W = [M: the managers, err, log: calls made]
\* GameObject.add_object: register self, then child.add_object() for every child
RECURSIVE go_add_object(_, _, _, _)
RECURSIVE AddChildren(_, _, _)
AddChildren(O, W, cs) ==
    IF cs = << >> THEN W
    ELSE AddChildren(O, go_add_object(O, W, Head(cs).obj, NoneStr), Tail(cs))

go_add_object(O, W, obj, group_name) ==
    LET m == O[obj].object_manager
        W1 == [W EXCEPT !.M[m] = om_add_object(O, @, obj, group_name),
                        !.log = Append(@, << "add_object", obj >>)]
    IN  AddChildren(O, W1, O[obj].child_objects)

\* GameObject.destroy_object: child.destroy_object() for every child, then
\* remove self; an exception ends the whole cascade
RECURSIVE go_destroy_object(_, _, _)
RECURSIVE DestroyChildren(_, _, _)
DestroyChildren(O, W, cs) ==
    IF cs = << >> \/ W.err # "none" THEN W
    ELSE DestroyChildren(O, go_destroy_object(O, W, Head(cs).obj), Tail(cs))

\* mutant: self is removed before the children are destroyed
go_destroy_object_self_first(O, W, obj) ==
    LET m == O[obj].object_manager
        r == om_remove_object(W.M[m], obj)
        W1 == [M |-> [W.M EXCEPT ![m] = r.m], err |-> r.err,
               log |-> Append(W.log, << "remove_object", obj >>)]
    IN  IF W.err # "none" THEN W ELSE DestroyChildren(O, W1, O[obj].child_objects)

go_destroy_object(O, W, obj) ==
    LET m == O[obj].object_manager
        W1 == DestroyChildren(O, W, O[obj].child_objects)
        r == om_remove_object(W1.M[m], obj)
    IN  IF W1.err # "none" THEN W1
        ELSE [M |-> [W1.M EXCEPT ![m] = r.m], err |-> r.err,
              log |-> Append(W1.log, << "remove_object", obj >>)]

\* history: the registrations in call order, each removal dropping the first
\* registration of the object if there is one
RECURSIVE Replay(_, _, _)
Replay(O, a, log) ==
    IF log = << >> THEN a
    ELSE LET m == O[Head(log)[2]].object_manager
             x == Head(log)[2]
         IN  Replay(O,
                    IF Head(log)[1] = "add_object" THEN [a EXCEPT ![m] = Append(@, x)]
                    ELSE IF Contains(a[m], x) THEN [a EXCEPT ![m] = RemoveFirst(@, x)]
                    ELSE a,
                    Tail(log))

\* ------------------------------------------------------- object operations
ObjectIds == 1..Len(objs)

\* Cls(...): a constructor call, the object is not registered
construct(cls, layer) ==
    /\ err = "none"
    /\ Len(objs) < MaxGameObjects
    /\ objs' = Append(objs, NewObject(cls, layer))
    /\ managers' = [managers EXCEPT ![object_manager] = Constructed(@, cls, Len(objs) + 1)]
    /\ hooks' = << >>
    /\ UNCHANGED << clock, iters, timer_history >>
    /\ op' = Op("construct", NoneStr, cls, NoneStr, Len(objs) + 1)
    /\ UNCHANGED << scene, object_manager, next_scene, saved_scenes, scenes, err,
                    first_request, parked, added >>

\* parent.add_child(Cls(...), name): the child is a new object, as in ui.Button
add_child(parent, cls, layer, name) ==
    /\ err = "none"
    /\ parent \in ObjectIds
    /\ Len(objs) < MaxGameObjects
    /\ objs' = go_add_child(Append(objs, NewObject(cls, layer)), parent, Len(objs) + 1, name)
    /\ managers' = [managers EXCEPT ![object_manager] = Constructed(@, cls, Len(objs) + 1)]
    /\ hooks' = << >>
    /\ UNCHANGED << clock, iters, timer_history >>
    /\ op' = Op("add_child", name, cls, NoneStr, parent)
    /\ UNCHANGED << scene, object_manager, next_scene, saved_scenes, scenes, err,
                    first_request, parked, added >>

\* obj.add_object(group_name=g)
add_object(obj, g) ==
    /\ err = "none"
    /\ obj \in ObjectIds
    /\ Len(managers[objs[obj].object_manager].objects) + Cardinality(Subtree(objs, obj))
          <= MaxLive
    /\ LET W == go_add_object(objs, [M |-> managers, err |-> "none", log |-> << >>], obj, g)
       IN  /\ managers' = W.M
           /\ hooks' = W.log
           /\ added' = Replay(objs, added, W.log)
    /\ UNCHANGED << clock, iters, timer_history >>
    /\ op' = Op("add_object", g, NoneStr, NoneStr, obj)
    /\ UNCHANGED << scene, object_manager, next_scene, saved_scenes, scenes, objs, err,
                    first_request, parked >>

\* program.get_object_manager().remove_object(obj)
remove_object(obj) ==
    /\ err = "none"
    /\ obj \in ObjectIds
    /\ LET r == om_remove_object(managers[object_manager], obj)
       IN  /\ managers' = [managers EXCEPT ![object_manager] = r.m]
           /\ err' = r.err
           /\ hooks' = << << "remove_object", obj >> >>
           /\ added' = IF r.err = "none" THEN Replay(objs, added, hooks') ELSE added
    /\ UNCHANGED << clock, iters, timer_history >>
    /\ op' = Op("remove_object", NoneStr, NoneStr, NoneStr, obj)
    /\ UNCHANGED << scene, object_manager, next_scene, saved_scenes, scenes, objs,
                    first_request, parked >>

\* obj.destroy_object()
destroy_object(obj) ==
    /\ err = "none"
    /\ obj \in ObjectIds
    /\ LET W == go_destroy_object(objs, [M |-> managers, err |-> "none", log |-> << >>], obj)
       IN  /\ managers' = W.M
           /\ err' = W.err
           /\ hooks' = W.log
           /\ added' = Replay(objs, added, W.log)
    /\ UNCHANGED << clock, iters, timer_history >>
    /\ op' = Op("destroy_object", NoneStr, NoneStr, NoneStr, obj)
    /\ UNCHANGED << scene, object_manager, next_scene, saved_scenes, scenes, objs,
                    first_request, parked >>

ObjectClasses ==
    { << "GameObject", 0 >>, << "ClickableObject", 1 >> }

\* the flat object collection: construction, registration, removal
NextObjects ==
    \/ \E c \in ObjectClasses : construct(c[1], c[2])
    \/ \E o \in 1..MaxGameObjects, g \in GroupNames \cup {NoneStr} : add_object(o, g)
    \/ \E o \in 1..MaxGameObjects : remove_object(o)

SpecObjects == Init /\ [][NextObjects]_vars

\* parent/child composition: construction, add_child, registration, destruction
NextTree ==
    \/ \E c \in ObjectClasses : construct(c[1], c[2])
    \/ \E p \in 1..MaxGameObjects, c \in ObjectClasses : add_child(p, c[1], c[2], NoneStr)
    \/ \E o \in 1..MaxGameObjects : add_object(o, NoneStr)
    \/ \E o \in 1..MaxGameObjects : destroy_object(o)

SpecTree == Init /\ [][NextTree]_vars

\* ==================================================================== events
\* EventManager.check_events with handlers that change no subscription: the
\* calls listener.events(event) it makes, event i of the batch to each listener
RECURSIVE Dispatch(_, _, _)
Dispatch(L, events, i) ==
    IF i > Len(events) THEN << >>
    ELSE (IF events[i] \in DOMAIN L
          THEN [j \in 1..Len(L[events[i]]) |-> << "events", L[events[i]][j], i >>]
          ELSE << >>)
         \o Dispatch(L, events, i + 1)

\* event_manager.subscribe(event_type, obj) on the active manager
do_subscribe(event_type, obj) ==
    /\ err = "none"
    /\ event_type \in DOMAIN managers[object_manager].listeners
          => Len(managers[object_manager].listeners[event_type]) < MaxSubscriptions
    /\ managers' = [managers EXCEPT ![object_manager].listeners = subscribe(@, event_type, obj)]
    /\ hooks' = << >>
    /\ UNCHANGED << clock, iters, timer_history >>
    /\ op' = Op("subscribe", event_type, NoneStr, NoneStr, obj)
    /\ UNCHANGED << scene, object_manager, next_scene, saved_scenes, scenes, objs, err,
                    first_request, parked, added >>

\* event_manager.unsubscribe(event_type, obj) on the active manager
do_unsubscribe(event_type, obj) ==
    /\ err = "none"
    /\ managers' = [managers EXCEPT ![object_manager].listeners = unsubscribe(@, event_type, obj)]
    /\ hooks' = << >>
    /\ UNCHANGED << clock, iters, timer_history >>
    /\ op' = Op("unsubscribe", event_type, NoneStr, NoneStr, obj)
    /\ UNCHANGED << scene, object_manager, next_scene, saved_scenes, scenes, objs, err,
                    first_request, parked, added >>

\* event_manager.check_events(events); the batch is a list of event kinds
check_events(events) ==
    /\ err = "none"
    /\ hooks' = Dispatch(managers[object_manager].listeners, events, 1)
    /\ UNCHANGED << clock, iters, timer_history >>
    /\ op' = Op("check_events", NoneStr, NoneStr, events, None)
    /\ UNCHANGED << scene, object_manager, next_scene, saved_scenes, scenes, managers, objs,
                    err, first_request, parked, added >>

Batches == UNION {[1..n -> EventKinds] : n \in 1..MaxBatch}

NextEvents ==
    \/ \E k \in EventKinds, l \in 1..MaxListeners : do_subscribe(k, l)
    \/ \E k \in EventKinds, l \in 1..MaxListeners : do_unsubscribe(k, l)
    \/ \E b \in Batches : check_events(b)

SpecEvents == Init /\ [][NextEvents]_vars

\* ------------------------------------------------------------ scene claims
Requests == {"go_to", "go_to_with_save", "load_scene"}

\* what committing request r amounts to, from the state before end_frame to the
\* state after it
Applied(r) ==
    CASE r.op = "go_to" ->
            /\ scenes' = Append(scenes, NewScene(r.cls, r.kwargs, r.mgr))
            /\ scene' = Len(scenes) + 1
            /\ object_manager' = r.mgr
      [] r.op = "go_to_with_save" ->
            /\ Len(scenes') = Len(scenes) + 1
            /\ scene' = Len(scenes) + 1
            /\ scenes'[scene'].cls = r.cls /\ scenes'[scene'].kwargs = r.kwargs
            /\ object_manager' # r.mgr
            /\ scenes'[scene'].object_manager = object_manager'
      [] r.op = "load_scene" ->
            /\ scenes' = scenes
            /\ scene' = r.scene
            /\ object_manager' = r.mgr

\* C1: between two end_frame calls only the first request that returns fills the
\* pending slot; every later request leaves the slot and the saved-scene table
\* as they are, and the next end_frame carries out exactly that first request.
C1_FirstRequestWins ==
    [][ /\ (op'.name \in Requests /\ first_request = NoRequest /\ err' = "none")
            => (next_scene' # NoNext /\ next_scene'.cls = op'.cls
                /\ next_scene'.kwargs = op'.kwargs)
        /\ (op'.name \in Requests /\ first_request # NoRequest)
            => (next_scene' = next_scene /\ saved_scenes' = saved_scenes)
        /\ (op'.name = "end_frame" /\ first_request # NoRequest)
            => (Applied(first_request) /\ next_scene' = NoNext)
      ]_vars

\* a second request for another scene type was made in the frame and ignored
C1_Witness ==
    /\ op.name \in Requests /\ op.slot = "type"
    /\ first_request.op = "go_to" /\ first_request.cls # op.cls
    /\ next_scene.cls = first_request.cls

\* C2: the end_frame that commits load_scene(name) makes the scene that was
\* active when go_to_with_save(name, ...) was called the active scene again, with
\* the ObjectManager that was active then; it constructs no scene, calls no
\* start(), and calls load_object() once per entry of the restored live list.
C2_RestoreIdentity ==
    [][ (op'.name = "end_frame" /\ first_request.op = "load_scene")
            => /\ scene' = first_request.scene
               /\ object_manager' = first_request.mgr
               /\ scenes' = scenes
               /\ scenes[scene'].object_manager = object_manager'
               /\ hooks' = CallsOn("load_object", managers'[object_manager'].objects)
      ]_vars

\* a parked scene with two live objects has just been restored
C2_Witness ==
    /\ op.name = "end_frame" /\ op.slot = "inst"
    /\ scene < Len(scenes)
    /\ Len(managers[object_manager].objects) = 2
    /\ hooks = << << "load_object", managers[object_manager].objects[1] >>,
                  << "load_object", managers[object_manager].objects[2] >> >>

\* C3: end_frame with an empty pending slot changes nothing and calls no hook.
C3_IdleEndFrame ==
    [][ (op'.name = "end_frame" /\ next_scene = NoNext)
            => /\ UNCHANGED << scene, object_manager, managers, saved_scenes,
                               next_scene, scenes, objs >>
               /\ hooks' = << >>
               /\ err' = "none"
      ]_vars

\* end_frame ran with nothing pending on a manager that holds objects
C3_Witness ==
    /\ op.name = "end_frame" /\ op.slot = "none"
    /\ managers[object_manager].objects # << >>
    /\ DOMAIN managers[object_manager].listeners # {}

\* C4: a request never changes the active scene, the active manager or that
\* manager's live list; the active scene and manager change only in end_frame
\* and start_program.
C4_DeferredCommit ==
    [][ /\ (op'.name \in Requests)
            => /\ scene' = scene
               /\ object_manager' = object_manager
               /\ managers'[object_manager] = managers[object_manager]
        /\ (scene' # scene \/ object_manager' # object_manager)
            => op'.name \in {"end_frame", "start_program"}
      ]_vars

\* a go_to_with_save was accepted while the active manager held objects
C4_Witness ==
    /\ op.name = "go_to_with_save" /\ op.slot = "none"
    /\ next_scene.mgr # object_manager
    /\ managers[object_manager].objects # << >>

\* C9: load_scene(name) with an empty slot and an unknown name raises KeyError and
\* leaves slot, active scene, active manager and saved table as they were; with
\* a filled slot it raises nothing and removes nothing from the table.
C9_LoadSceneKeyError ==
    [][ (op'.name = "load_scene")
            => /\ (next_scene = NoNext /\ op'.sname \notin DOMAIN saved_scenes)
                    => /\ err' = "KeyError"
                       /\ next_scene' = NoNext
                       /\ UNCHANGED << scene, object_manager, saved_scenes >>
               /\ (next_scene # NoNext)
                    => (err' = "none" /\ saved_scenes' = saved_scenes)
      ]_vars

\* load_scene failed on an unknown name while another name was saved
C9_Witness ==
    /\ op.name = "load_scene" /\ err = "KeyError"
    /\ DOMAIN saved_scenes # {} /\ next_scene = NoNext

\* C10 as stated: an entry of the saved-scene table stays, with the same scene,
\* through every step but a load_scene of its name.
C10_Original ==
    [][ \A n \in DOMAIN saved_scenes :
            \/ (op'.name = "load_scene" /\ op'.sname = n)
            \/ (n \in DOMAIN saved_scenes' /\ saved_scenes'[n] = saved_scenes[n])
      ]_vars

\* C10 amended: an entry of the saved-scene table stays, with the same scene,
\* through every step but a load_scene of its name and an accepted
\* go_to_with_save of its name, which replaces it by the scene active at the call.
C10_SavedPersists ==
    [][ \A n \in DOMAIN saved_scenes :
            \/ (op'.name = "load_scene" /\ op'.sname = n)
            \/ (op'.name = "go_to_with_save" /\ op'.sname = n /\ next_scene = NoNext
                /\ n \in DOMAIN saved_scenes' /\ saved_scenes'[n] = scene)
            \/ (n \in DOMAIN saved_scenes' /\ saved_scenes'[n] = saved_scenes[n])
      ]_vars

\* two scenes are parked under two names and a transition was committed since
C10_Witness ==
    /\ op.name = "end_frame" /\ op.slot = "type"
    /\ DOMAIN saved_scenes = SaveNames
    /\ saved_scenes["paused"] # saved_scenes["menu"]

\* ----------------------------------------------------------- object claims
\* the layer the claims speak of: an object without a layer counts as layer 0
ClaimLayer(x) == IF objs[x].cls \in {"GameObject", "Timer"} THEN 0 ELSE objs[x].layer

OfLayer(s, k) == SelectSeq(s, LAMBDA x : ClaimLayer(x) = k)

\* C5: every live list is sorted by non-decreasing layer, and the live objects of
\* one layer appear in the order in which they were added.
C5_LayerSortedStable ==
    \A m \in 1..Len(managers) :
        LET s == managers[m].objects
        IN  /\ \A i, j \in 1..Len(s) : i < j => ClaimLayer(s[i]) <= ClaimLayer(s[j])
            /\ \A x \in 1..Len(objs) : OfLayer(s, ClaimLayer(x)) = OfLayer(added[m], ClaimLayer(x))

\* three live objects: the one added first has the highest layer and is last, the
\* other two share a layer and the later constructed one was added first
C5_Witness ==
    LET s == managers[object_manager].objects
    IN  /\ Len(s) = 3
        /\ added[object_manager][1] = s[3]
        /\ ClaimLayer(s[1]) = ClaimLayer(s[2]) /\ ClaimLayer(s[2]) < ClaimLayer(s[3])
        /\ s[1] > s[2]

\* C8: remove_object on an object that is not in the live list raises nothing and
\* leaves the live list, the groups and the listener table unchanged.
C8_RemoveAbsentIsNoop ==
    [][ (op'.name = "remove_object"
         /\ ~Contains(managers[object_manager].objects, op'.obj))
            => (err' = "none" /\ managers' = managers)
      ]_vars

\* C7: destroy_object on an object whose whole subtree is registered (each object
\* once in its manager's live list) raises nothing, removes every object of the
\* subtree from the live list with one remove_object call each and no other
\* call, every child before its parent and every subtree as one run of calls.
SubtreeRegistered(x) ==
    \A d \in Subtree(objs, x) : Count(managers[objs[d].object_manager].objects, d) = 1

RemovedAt(log, x) == CHOOSE i \in 1..Len(log) : log[i] = << "remove_object", x >>

C7_CascadingDestroy ==
    [][ (op'.name = "destroy_object" /\ SubtreeRegistered(op'.obj))
            => LET sub == Subtree(objs, op'.obj)
               IN  /\ err' = "none"
                   /\ Len(hooks') = Cardinality(sub)
                   /\ \A d \in sub :
                         /\ \E i \in 1..Len(hooks') : hooks'[i] = << "remove_object", d >>
                         /\ ~Contains(managers'[objs[d].object_manager].objects, d)
                         /\ \A c \in Subtree(objs, d) :
                               /\ RemovedAt(hooks', c) <= RemovedAt(hooks', d)
                               /\ RemovedAt(hooks', c)
                                     > RemovedAt(hooks', d) - Cardinality(Subtree(objs, d))
                   /\ \A m \in 1..Len(managers) :
                         managers'[m].objects
                            = SelectSeq(managers[m].objects, LAMBDA x : x \notin sub)
      ]_vars

\* a registered parent with a registered child and grandchild, or two registered
\* children, has just been destroyed: three removals, the parent's last
C7_Witness ==
    /\ op.name = "destroy_object" /\ err = "none"
    /\ Cardinality(Subtree(objs, op.obj)) = 3
    /\ Len(hooks) = 3 /\ hooks[3] = << "remove_object", op.obj >>
    /\ managers[object_manager].objects = << >>

\* ------------------------------------------------------------ event claims
Subscribers(L, k) == IF k \in DOMAIN L THEN L[k] ELSE << >>

RECURSIVE Deliveries(_, _, _)
Deliveries(L, events, i) ==
    IF i > Len(events) THEN << >>
    ELSE [j \in 1..Len(Subscribers(L, events[i])) |->
             << "events", Subscribers(L, events[i])[j], i >>]
         \o Deliveries(L, events, i + 1)

\* C6: the listeners of a kind are its subscriptions in subscription order;
\* unsubscribe drops the first subscription of the listener and nothing else;
\* no kind is ever mapped to an empty list; check_events calls, for each event of
\* the batch in turn, exactly the listeners of its kind in that order, raises
\* nothing, and calls nobody for a kind without an entry.
C6_EventOrder ==
    [][ LET L == managers[object_manager].listeners
            L2 == managers'[object_manager].listeners
        IN  /\ \A k \in DOMAIN L2 : L2[k] # << >>
            /\ (op'.name = "subscribe")
                  => \A k \in EventKinds :
                        Subscribers(L2, k) = IF k = op'.sname
                                             THEN Append(Subscribers(L, k), op'.obj)
                                             ELSE Subscribers(L, k)
            /\ (op'.name = "unsubscribe")
                  => \A k \in EventKinds :
                        Subscribers(L2, k) = IF k = op'.sname /\ Contains(Subscribers(L, k), op'.obj)
                                             THEN RemoveFirst(Subscribers(L, k), op'.obj)
                                             ELSE Subscribers(L, k)
            /\ (op'.name = "check_events")
                  => /\ hooks' = Deliveries(L, op'.kwargs, 1)
                     /\ err' = "none"
                     /\ L2 = L
      ]_vars

\* after the last listener of the batch's kind was unsubscribed the kind has no
\* entry, and a batch of that kind and a kind with two listeners reached those two
C6_Witness ==
    /\ op.name = "check_events"
    /\ op.kwargs = << MOUSEBUTTONDOWN, MOUSEMOTION >>
    /\ MOUSEBUTTONDOWN \notin DOMAIN managers[object_manager].listeners
    /\ hooks = << << "events", 2, 2 >>, << "events", 1, 2 >> >>

\* ==================================================================== clicks
MaxClickables == 2
MaxCoord == 2

PRIMARY == 1
MIDDLE == 2
SECONDARY == 3
Buttons == {PRIMARY, MIDDLE, SECONDARY}

\* bounding rectangles and pointer positions on a small grid
Rects == {[left |-> l, top |-> 0, width |-> w, height |-> 1] : l \in 0..1, w \in 1..2}

Positions == (0..MaxCoord) \X (0..1)

\* pygame events: MOUSEBUTTONDOWN carries pos and button, MOUSEMOTION carries pos
Events ==
    {[type |-> MOUSEBUTTONDOWN, pos |-> p, button |-> b] : p \in Positions, b \in Buttons}
    \cup {[type |-> MOUSEMOTION, pos |-> p, button |-> 0] : p \in Positions}

\* rect.collidepoint(pos): the right and bottom edges are outside
collidepoint(rect, pos) ==
    /\ rect.left <= pos[1] /\ pos[1] < rect.left + rect.width
    /\ rect.top <= pos[2] /\ pos[2] < rect.top + rect.height

\* ClickableObject.events(event) on object self: the handler calls it makes
ClickableObject_events(O, self, event) ==
    IF event.type = MOUSEBUTTONDOWN
    THEN IF collidepoint(O[self].rect, event.pos)
         THEN (IF event.button = 1 THEN << << "click_function", self, event.pos >> >>
               ELSE << >>)
              \o (IF event.button = 3
                  THEN << << "click_function_right", self, event.pos >> >> ELSE << >>)
         ELSE (IF event.button = 1 THEN << << "clicked_outside", self, event.pos >> >>
               ELSE << >>)
              \o (IF event.button = 3
                  THEN << << "click_function_right", self, event.pos >> >> ELSE << >>)
    ELSE << >>

\* EventManager.check_events over clickable listeners whose handlers are no-ops
RECURSIVE EventsOfListeners(_, _, _)
EventsOfListeners(O, ls, event) ==
    IF ls = << >> THEN << >>
    ELSE ClickableObject_events(O, Head(ls), event) \o EventsOfListeners(O, Tail(ls), event)

RECURSIVE DispatchClicks(_, _, _)
DispatchClicks(O, L, events) ==
    IF events = << >> THEN << >>
    ELSE (IF Head(events).type \in DOMAIN L
          THEN EventsOfListeners(O, L[Head(events).type], Head(events))
          ELSE << >>)
         \o DispatchClicks(O, L, Tail(events))

\* a ui.Button-like subclass: ClickableObject.__init__, then the rect is set and an
\* active one subscribes to MOUSEMOTION too
construct_clickable(rect, active) ==
    /\ err = "none"
    /\ Len(objs) < MaxClickables
    /\ LET obj == Len(objs) + 1
           m0 == Constructed(managers[object_manager], "ClickableObject", obj)
       IN  /\ objs' = Append(objs, [rect |-> rect] @@ NewObject("ClickableObject", 1))
           /\ managers' = [managers EXCEPT ![object_manager] =
                              IF active
                              THEN [m0 EXCEPT !.listeners = subscribe(@, MOUSEMOTION, obj)]
                              ELSE m0]
           /\ UNCHANGED << clock, iters, timer_history >>
           /\ op' = Op("construct", NoneStr, "ClickableObject", NoneStr, obj)
    /\ hooks' = << >>
    /\ UNCHANGED << scene, object_manager, next_scene, saved_scenes, scenes, err,
                    first_request, parked, added >>

\* ObjectManager.object_events(events) on the active manager
object_events(events) ==
    /\ err = "none"
    /\ hooks' = DispatchClicks(objs, managers[object_manager].listeners, events)
    /\ UNCHANGED << clock, iters, timer_history >>
    /\ op' = Op("object_events", NoneStr, NoneStr, events, None)
    /\ UNCHANGED << scene, object_manager, next_scene, saved_scenes, scenes, managers, objs,
                    err, first_request, parked, added >>

NextClick ==
    \/ \E r \in Rects, a \in BOOLEAN : construct_clickable(r, a)
    \/ \E e \in Events : object_events(<< e >>)

SpecClick == Init /\ [][NextClick]_vars

\* ------------------------------------------------------------- click claims
\* the handler the dispatch table of the claim names
ChosenHandler(inside, button) ==
    CASE inside /\ button = PRIMARY -> "click_function"
      [] inside /\ button = SECONDARY -> "click_function_right"
      [] ~inside /\ button = PRIMARY -> "clicked_outside"
      [] ~inside /\ button = SECONDARY -> "clicked_outside_right"

\* C11: a pointer-button-down event with the primary or the secondary button makes
\* every clickable listener call exactly one handler: click_function (inside,
\* primary), click_function_right (inside, secondary), clicked_outside (outside,
\* primary), clicked_outside_right (outside, secondary).
C11_ClickDispatch ==
    [][ (op'.name = "object_events" /\ op'.kwargs[1].type = MOUSEBUTTONDOWN
         /\ op'.kwargs[1].button \in {PRIMARY, SECONDARY})
            => LET e == op'.kwargs[1]
                   ls == Subscribers(managers[object_manager].listeners, MOUSEBUTTONDOWN)
               IN  hooks' = [i \in 1..Len(ls) |->
                                << ChosenHandler(collidepoint(objs[ls[i]].rect, e.pos), e.button),
                                   ls[i], e.pos >>]
      ]_vars

\* ============================================================ subscriptions
\* objects that scene code subscribes, registers, removes and destroys, and the
\* event batches that reach them
NextListeners ==
    \/ construct("ClickableObject", 1)
    \/ \E k \in EventKinds, o \in ObjectIds : do_subscribe(k, o)
    \/ \E o \in ObjectIds : add_object(o, NoneStr)
    \/ \E o \in ObjectIds : remove_object(o)
    \/ \E o \in ObjectIds : destroy_object(o)
    \/ \E k \in EventKinds : check_events(<< k >>)

SpecListeners == Init /\ [][NextListeners]_vars

\* C12: after remove_object(obj) or obj.destroy_object() has returned, obj is in no
\* listener list of its manager, under any event kind, whatever subscribe calls
\* were made before.
C12_NoDanglingListener ==
    [][ (op'.name \in {"remove_object", "destroy_object"} /\ err' = "none")
            => LET L == managers'[objs[op'.obj].object_manager].listeners
               IN  \A k \in DOMAIN L : ~Contains(L[k], op'.obj)
      ]_vars

\* ==================================================================== timers
MaxClock == 6

Countdowns == {2, 3}

\* Timer.__init__ before the optional start_timer()
NewTimer(countdown, first_check) ==
    [countdown |-> countdown, current_time |-> 0, last_update |-> -1,
     time_difference |-> 0, running |-> FALSE, first_check |-> first_check]
    @@ NewObject("Timer", 0)

\* the Timer methods take the Timer record T and the value of get_ticks()
Timer_start_timer(T, now) ==
    [T EXCEPT !.running = TRUE, !.current_time = now, !.last_update = now]

Timer_stop_timer(T) == [T EXCEPT !.running = FALSE]

Timer_restart_timer(T) == [T EXCEPT !.first_check = FALSE]

Timer_save_object(T, now) ==
    [T EXCEPT !.time_difference = now - T.last_update, !.running = ~T.running]

\* mutant: the baseline is the time of the load, the cached delta is dropped
Timer_load_object_full(T, now) ==
    [T EXCEPT !.current_time = now, !.last_update = now,
              !.time_difference = 0, !.running = ~T.running]

Timer_load_object(T, now) ==
    [T EXCEPT !.current_time = now, !.last_update = now - T.time_difference,
              !.time_difference = 0, !.running = ~T.running]

\* mutant: the countdown has to be exceeded
Timer_update_strict(T, now) ==
    IF T.running
    THEN IF now - T.last_update > T.countdown \/ ~T.first_check
         THEN [T |-> [T EXCEPT !.current_time = now, !.first_check = TRUE,
                               !.last_update = now],
               do |-> TRUE]
         ELSE [T |-> [T EXCEPT !.current_time = now], do |-> FALSE]
    ELSE [T |-> T, do |-> FALSE]

\* Timer.update: [T: the Timer after the call, do: whether self.do() was called]
Timer_update(T, now) ==
    IF T.running
    THEN IF now - T.last_update >= T.countdown \/ ~T.first_check
         THEN [T |-> [T EXCEPT !.current_time = now, !.first_check = TRUE,
                               !.last_update = now],
               do |-> TRUE]
         ELSE [T |-> [T EXCEPT !.current_time = now], do |-> FALSE]
    ELSE [T |-> T, do |-> FALSE]

\* history of one Timer: whether it has fired; while only update() has touched it
\* since its last fire (steady), the time of that fire and the gap to the fire
\* before; and its suspension: phase "saved" after save_object on a steady running
\* Timer, "loaded" after the load_object that follows, "resumed" after the first
\* fire that follows, "none" after anything else; suspended: "running" or
\* "stopped", the running flag before the save_object that no call but update()
\* has followed, "no" otherwise
NewHistory(first_check) ==
    [first_check |-> first_check, fired |-> FALSE, fired_at |-> 0, gap |-> 0,
     steady |-> FALSE, phase |-> "none", elapsed |-> 0, saved_at |-> 0,
     loaded_at |-> 0, was_running |-> FALSE, suspended |-> "no"]

Unsteady(H) == [NewHistory(H.first_check) EXCEPT !.fired = H.fired]

TimerFrame ==
    UNCHANGED << scene, object_manager, next_scene, saved_scenes, scenes, managers, err,
                 first_request, parked, added, iters >>

\* the state after Timer(countdown, do, start, first_check=first_check) was
\* constructed by a program that has done nothing else
InitTimer ==
    /\ scene = None
    /\ object_manager = 1
    /\ next_scene = NoNext
    /\ saved_scenes = EmptyDict
    /\ scenes = << >>
    /\ managers = << EmptyManager >>
    /\ \E countdown \in Countdowns, start \in BOOLEAN, first_check \in BOOLEAN :
          /\ objs = << IF start
                       THEN Timer_start_timer(NewTimer(countdown, first_check), 0)
                       ELSE NewTimer(countdown, first_check) >>
          /\ timer_history = << NewHistory(first_check) >>
    /\ hooks = << >>
    /\ op = [name |-> "construct", sname |-> NoneStr, cls |-> "Timer", kwargs |-> NoneStr,
             obj |-> 1, slot |-> "none"]
    /\ err = "none"
    /\ first_request = NoRequest
    /\ parked = EmptyDict
    /\ added = << << >> >>
    /\ clock = 0
    /\ iters = << >>

\* time passes between two calls
tick ==
    /\ err = "none"
    /\ clock < MaxClock
    /\ clock' = clock + 1
    /\ hooks' = << >>
    /\ op' = Op("tick", NoneStr, NoneStr, NoneStr, None)
    /\ UNCHANGED << objs, timer_history >>
    /\ TimerFrame

start_timer(t) ==
    /\ err = "none"
    /\ objs' = [objs EXCEPT ![t] = Timer_start_timer(@, clock)]
    /\ timer_history' = [timer_history EXCEPT ![t] = Unsteady(@)]
    /\ hooks' = << >>
    /\ op' = Op("start_timer", NoneStr, NoneStr, NoneStr, t)
    /\ UNCHANGED clock
    /\ TimerFrame

stop_timer(t) ==
    /\ err = "none"
    /\ objs' = [objs EXCEPT ![t] = Timer_stop_timer(@)]
    /\ timer_history' = [timer_history EXCEPT ![t] = Unsteady(@)]
    /\ hooks' = << >>
    /\ op' = Op("stop_timer", NoneStr, NoneStr, NoneStr, t)
    /\ UNCHANGED clock
    /\ TimerFrame

restart_timer(t) ==
    /\ err = "none"
    /\ objs' = [objs EXCEPT ![t] = Timer_restart_timer(@)]
    /\ timer_history' = [timer_history EXCEPT ![t] = Unsteady(@)]
    /\ hooks' = << >>
    /\ op' = Op("restart_timer", NoneStr, NoneStr, NoneStr, t)
    /\ UNCHANGED clock
    /\ TimerFrame

save_object(t) ==
    /\ err = "none"
    /\ objs' = [objs EXCEPT ![t] = Timer_save_object(@, clock)]
    /\ LET H == timer_history[t]
           S == IF H.suspended # "no" THEN "no"
                ELSE IF objs[t].running THEN "running" ELSE "stopped"
       IN  timer_history' =
              [timer_history EXCEPT ![t] =
                  IF H.steady /\ objs[t].running
                  THEN [Unsteady(H) EXCEPT !.phase = "saved",
                                           !.elapsed = clock - H.fired_at,
                                           !.saved_at = clock,
                                           !.was_running = objs[t].running,
                                           !.suspended = S]
                  ELSE [Unsteady(H) EXCEPT !.suspended = S]]
    /\ hooks' = << >>
    /\ op' = Op("save_object", NoneStr, NoneStr, NoneStr, t)
    /\ UNCHANGED clock
    /\ TimerFrame

load_object(t) ==
    /\ err = "none"
    /\ objs' = [objs EXCEPT ![t] = Timer_load_object(@, clock)]
    /\ timer_history' =
          [timer_history EXCEPT ![t] =
              IF @.phase = "saved"
              THEN [@ EXCEPT !.phase = "loaded", !.loaded_at = clock,
                             !.suspended = "no"]
              ELSE Unsteady(@)]
    /\ hooks' = << >>
    /\ op' = Op("load_object", NoneStr, NoneStr, NoneStr, t)
    /\ UNCHANGED clock
    /\ TimerFrame

\* t.update()
timer_update(t) ==
    /\ err = "none"
    /\ LET r == Timer_update(objs[t], clock)
           H == timer_history[t]
       IN  /\ objs' = [objs EXCEPT ![t] = r.T]
           /\ hooks' = IF r.do THEN << << "do", t >> >> ELSE << >>
           /\ timer_history' =
                 [timer_history EXCEPT ![t] =
                     IF ~r.do THEN H
                     ELSE IF H.phase = "loaded"
                     THEN [H EXCEPT !.fired_at = clock, !.steady = TRUE,
                                    !.phase = "resumed"]
                     ELSE [Unsteady(H) EXCEPT !.fired = TRUE, !.fired_at = clock,
                                              !.gap = IF H.steady THEN clock - H.fired_at
                                                      ELSE 0,
                                              !.steady = TRUE,
                                              !.suspended = H.suspended]]
    /\ op' = Op("update", NoneStr, NoneStr, NoneStr, t)
    /\ UNCHANGED clock
    /\ TimerFrame

NextTimer ==
    \/ tick
    \/ \E t \in ObjectIds : start_timer(t)
    \/ \E t \in ObjectIds : stop_timer(t)
    \/ \E t \in ObjectIds : restart_timer(t)
    \/ \E t \in ObjectIds : save_object(t)
    \/ \E t \in ObjectIds : load_object(t)
    \/ \E t \in ObjectIds : timer_update(t)

SpecTimer == InitTimer /\ [][NextTimer]_vars

\* ------------------------------------------------------------- timer claims
Fired(t) == hooks' = << << "do", t >> >>

\* C13: update() on a running Timer that was constructed with first_check=False
\* and has not fired yet invokes the action whatever the clock says; on a running
\* Timer that only update() has touched since its last fire at time f, update()
\* at time t invokes the action if and only if t - f >= countdown; every fire
\* sets last_update to the current time; update() on a Timer that is not running
\* invokes nothing and changes nothing.
C13_TimerFiringRule ==
    [][ (op'.name = "update")
            => LET t == op'.obj
                   T == objs[t]
                   H == timer_history[t]
               IN  /\ (T.running /\ ~H.first_check /\ ~H.fired) => Fired(t)
                   /\ (T.running /\ H.steady)
                         => (Fired(t) <=> clock - H.fired_at >= T.countdown)
                   /\ Fired(t) => objs'[t].last_update = clock
                   /\ ~Fired(t) => hooks' = << >>
                   /\ ~T.running => (~Fired(t) /\ objs'[t] = T)
      ]_vars

\* a Timer that fired, was updated without firing one tick before its countdown
\* had elapsed, and has now fired again exactly one countdown after the last fire
C13_Witness ==
    /\ op.name = "update" /\ hooks # << >>
    /\ timer_history[op.obj].gap = objs[op.obj].countdown
    /\ ~timer_history[op.obj].first_check
    /\ clock = objs[op.obj].countdown

\* C14: a running Timer that has fired is saved e < countdown after that fire and
\* loaded at a later time l: load_object sets time_difference to 0 and gives the
\* running flag the value it had before save_object, and from then on update() at
\* time t invokes the action if and only if t - l >= countdown - e.
C14_SuspensionKeepsPhase ==
    [][ LET t == op'.obj
        IN  /\ (op'.name = "load_object" /\ timer_history[t].phase = "saved")
                  => /\ objs'[t].time_difference = 0
                     /\ objs'[t].running = timer_history[t].was_running
            /\ (op'.name = "update" /\ timer_history[t].phase = "loaded"
                /\ timer_history[t].elapsed < objs[t].countdown)
                  => (Fired(t) <=> clock - timer_history[t].loaded_at
                                      >= objs[t].countdown - timer_history[t].elapsed)
      ]_vars

\* a Timer saved one tick after a fire, loaded two ticks later, has just fired
\* countdown - 1 ticks after the load
C14_Witness ==
    /\ op.name = "update" /\ hooks # << >>
    /\ timer_history[op.obj].phase = "resumed"
    /\ timer_history[op.obj].elapsed = 1
    /\ timer_history[op.obj].loaded_at = timer_history[op.obj].saved_at + 2
    /\ clock = timer_history[op.obj].loaded_at + objs[op.obj].countdown - 1

\* ------------------------------------------------- scene transition claims
CallNames(log) == [i \in 1..Len(log) |-> log[i][1]]

\* x is in no group and in no listener list of manager record m
Forgotten(m, x) ==
    /\ \A g \in DOMAIN m.groups : ~Contains(m.groups[g], x)
    /\ \A k \in DOMAIN m.listeners : ~Contains(m.listeners[k], x)

\* C15: end_frame with a pending go_to calls remove_object for every entry of the
\* active manager's live list, then the outgoing scene's end(), then constructs
\* the new scene on the same manager and calls its start() once; afterwards the
\* live list is empty, no removed object is in a group or a listener list, the
\* slot is empty, and save_object was called on nothing.
C15_GoToCommit ==
    [][ (op'.name = "end_frame" /\ next_scene.kind = "type"
         /\ next_scene.mgr = object_manager)
            => LET old == managers[object_manager].objects
                   n == Len(old)
                   new == Len(scenes) + 1
               IN  /\ err' = "none"
                   /\ Len(hooks') = n + 3
                   /\ \A i \in 1..n : hooks'[i] = << "remove_object", old[i] >>
                   /\ hooks'[n + 1] = << "end", scene >>
                   /\ hooks'[n + 2] = << "__init__", new >>
                   /\ hooks'[n + 3] = << "start", new >>
                   /\ managers'[object_manager].objects = << >>
                   /\ \A i \in 1..n : Forgotten(managers'[object_manager], old[i])
                   /\ scenes' = Append(scenes, NewScene(next_scene.cls, next_scene.kwargs,
                                                        object_manager))
                   /\ scene' = new
                   /\ object_manager' = object_manager
                   /\ next_scene' = NoNext
      ]_vars

\* a go_to was committed on a manager that held two subscribed, grouped objects
C15_Witness ==
    /\ op.name = "end_frame" /\ op.slot = "type"
    /\ Len(hooks) = 5
    /\ hooks[1][1] = "remove_object" /\ hooks[2][1] = "remove_object"
    /\ hooks[3] = << "end", scene - 1 >>
    /\ managers[object_manager].objects = << >>
    /\ managers[object_manager].listeners = EmptyDict

\* C16: end_frame with a pending go_to_with_save calls save_object once for every
\* entry of the outgoing manager's live list, removes nothing from that manager and
\* does not call end(); the manager made by go_to_with_save, another one and still
\* empty, becomes the active one, the new scene is constructed on it and started;
\* an object the new scene adds later changes no manager but the active one.
C16_SaveCommit ==
    [][ /\ (op'.name = "end_frame" /\ next_scene.kind = "type"
            /\ next_scene.mgr # object_manager)
               => LET old == managers[object_manager].objects
                      n == Len(old)
                      new == Len(scenes) + 1
                  IN  /\ err' = "none"
                      /\ Len(hooks') = n + 2
                      /\ \A i \in 1..n : hooks'[i] = << "save_object", old[i] >>
                      /\ hooks'[n + 1] = << "__init__", new >>
                      /\ hooks'[n + 2] = << "start", new >>
                      /\ managers'[object_manager] = managers[object_manager]
                      /\ object_manager' = next_scene.mgr
                      /\ managers'[object_manager'] = EmptyManager
                      /\ scenes' = Append(scenes, NewScene(next_scene.cls, next_scene.kwargs,
                                                           object_manager'))
                      /\ scene' = new
                      /\ next_scene' = NoNext
        /\ (op'.name = "spawn_object")
               => /\ \A m \in 1..Len(managers) :
                        m # object_manager => managers'[m] = managers[m]
                  /\ Contains(managers'[object_manager].objects, op'.obj)
                  /\ objs'[op'.obj].object_manager = object_manager
      ]_vars

\* a go_to_with_save was committed: the parked manager keeps its two objects and
\* their subscriptions, the active manager is another one and empty
C16_Witness ==
    /\ op.name = "end_frame" /\ op.slot = "type"
    /\ CallNames(hooks) = << "save_object", "save_object", "__init__", "start" >>
    /\ \E m \in 1..Len(managers) :
          /\ m # object_manager
          /\ managers[m].objects = << hooks[1][2], hooks[2][2] >>
          /\ DOMAIN managers[m].listeners # {}
    /\ managers[object_manager] = EmptyManager

\* =================================================================== updates
MaxUpdaters == 3

\* what a subclass's update() does, the first time it is called: nothing, destroy
\* the object itself, or make a new object of some layer and register it
Behaviours ==
    {[kind |-> "pass", layer |-> 0], [kind |-> "destroy_self", layer |-> 0],
     [kind |-> "spawn", layer |-> 0], [kind |-> "spawn", layer |-> 1]}

Passive == [kind |-> "pass", layer |-> 0]

\* a GameObject subclass instance with an update() override; layer 0 is a plain
\* GameObject, layer 1 a DrawableObject
Scripted(layer, behaviour) ==
    [on_update |-> behaviour, done |-> FALSE]
    @@ NewObject(IF layer = 0 THEN "GameObject" ELSE "DrawableObject", layer)

\* obj.update() during a pass; P = [O: the objects, W: managers, err and calls]
ObjectUpdate(P, obj) ==
    LET b == P.O[obj].on_update
        W1 == [P.W EXCEPT !.log = Append(@, << "update", obj >>)]
        O1 == [P.O EXCEPT ![obj].done = TRUE]
    IN  IF P.O[obj].done \/ b.kind = "pass" THEN [O |-> P.O, W |-> W1]
        ELSE IF b.kind = "destroy_self"
        THEN [O |-> O1, W |-> go_destroy_object(O1, W1, obj)]
        ELSE LET O2 == Append(O1, Scripted(b.layer, Passive))
             IN  [O |-> O2, W |-> go_add_object(O2, W1, Len(O2), NoneStr)]

\* for obj in self.objects: obj.update() -- the list iterator reads the list at
\* its index i and stops when i reaches the list's current length
RECURSIVE UpdatePass(_, _, _)
UpdatePass(P, m, i) ==
    IF P.W.err # "none" \/ i > Len(P.W.M[m].objects) THEN P
    ELSE UpdatePass(ObjectUpdate(P, P.W.M[m].objects[i]), m, i + 1)

\* Cls(...).add_object() by scene code
spawn_scripted(layer, behaviour) ==
    /\ err = "none"
    /\ Len(objs) < MaxUpdaters
    /\ LET obj == Len(objs) + 1
           O == Append(objs, Scripted(layer, behaviour))
           W == go_add_object(O, [M |-> managers, err |-> "none", log |-> << >>], obj, NoneStr)
       IN  /\ objs' = O
           /\ managers' = W.M
           /\ hooks' = W.log
           /\ added' = Replay(O, added, W.log)
           /\ UNCHANGED << clock, iters, timer_history >>
           /\ op' = Op("spawn_object", NoneStr, NoneStr, NoneStr, obj)
    /\ UNCHANGED << scene, object_manager, next_scene, saved_scenes, scenes, err,
                    first_request, parked >>

\* ObjectManager.object_update() on the active manager
object_update ==
    /\ err = "none"
    /\ LET P == UpdatePass([O |-> objs,
                            W |-> [M |-> managers, err |-> "none", log |-> << >>]],
                           object_manager, 1)
       IN  /\ objs' = P.O
           /\ managers' = P.W.M
           /\ err' = P.W.err
           /\ hooks' = P.W.log
           /\ added' = Replay(P.O, added, SelectSeq(P.W.log, LAMBDA c : c[1] # "update"))
    /\ UNCHANGED << clock, iters, timer_history >>
    /\ op' = Op("object_update", NoneStr, NoneStr, NoneStr, None)
    /\ UNCHANGED << scene, object_manager, next_scene, saved_scenes, scenes,
                    first_request, parked >>

NextUpdate ==
    \/ \E l \in {0, 1}, b \in Behaviours : spawn_scripted(l, b)
    \/ object_update

SpecUpdate == Init /\ [][NextUpdate]_vars

\* ------------------------------------------------------------ update claims
\* C17: object_update raises nothing, and every object that is in the live list
\* when the pass starts and is not removed during the pass has its update()
\* called exactly once, whatever the update() callbacks remove or add.
C17_UpdatePassComplete ==
    [][ (op'.name = "object_update")
            => /\ err' = "none"
               /\ \A x \in 1..Len(objs) :
                     (/\ Contains(managers[object_manager].objects, x)
                      /\ ~Contains(hooks', << "remove_object", x >>))
                        => Count(hooks', << "update", x >>) = 1
      ]_vars

\* ================================================================== handlers
MaxHandlers == 3

\* what a subclass's click handler does, the first time it runs: nothing,
\* unsubscribe a listener from MOUSEBUTTONDOWN, or destroy a listener; the target
\* is the listener itself or another one
HandlerBehaviours ==
    {[kind |-> "pass", target |-> None]}
    \cup {[kind |-> k, target |-> x] : k \in {"unsubscribe", "destroy"},
                                      x \in 1..MaxHandlers}

\* a ClickableObject subclass instance with such a handler
ScriptedListener(behaviour) ==
    [on_event |-> behaviour, done |-> FALSE] @@ NewObject("ClickableObject", 1)

\* listener.events(event) for event number e of the batch
ListenerEvents(P, listener, e) ==
    LET b == P.O[listener].on_event
        m == P.O[listener].object_manager
        W1 == [P.W EXCEPT !.log = Append(@, << "events", listener, e >>)]
        O1 == [P.O EXCEPT ![listener].done = TRUE]
    IN  IF P.O[listener].done \/ b.kind = "pass" \/ b.target > Len(P.O)
        THEN [O |-> P.O, W |-> W1]
        ELSE IF b.kind = "unsubscribe"
        THEN [O |-> O1,
              W |-> [W1 EXCEPT !.M[m].listeners = unsubscribe(@, MOUSEBUTTONDOWN, b.target)]]
        ELSE [O |-> O1, W |-> go_destroy_object(O1, W1, b.target)]

\* for listener in self.listeners[event.type]: the list iterator reads the list
\* at its index i and stops at the list's current length; unsubscribe removes
\* from that same list
RECURSIVE ListenersPass(_, _, _, _, _)
ListenersPass(P, m, events, e, i) ==
    LET L == P.W.M[m].listeners
        ls == IF events[e] \in DOMAIN L THEN L[events[e]] ELSE << >>
    IN  IF P.W.err # "none" \/ i > Len(ls) THEN P
        ELSE ListenersPass(ListenerEvents(P, ls[i], e), m, events, e, i + 1)

\* for event in events: if event.type in self.listeners: ...
RECURSIVE EventsPass(_, _, _, _)
EventsPass(P, m, events, e) ==
    IF P.W.err # "none" \/ e > Len(events) THEN P
    ELSE EventsPass(ListenersPass(P, m, events, e, 1), m, events, e + 1)

\* Cls(...).add_object() by scene code; the constructor subscribes the object
spawn_listener(behaviour) ==
    /\ err = "none"
    /\ Len(objs) < MaxHandlers
    /\ LET obj == Len(objs) + 1
           O == Append(objs, ScriptedListener(behaviour))
           M0 == [managers EXCEPT ![object_manager] = Constructed(@, "ClickableObject", obj)]
           W == go_add_object(O, [M |-> M0, err |-> "none", log |-> << >>], obj, NoneStr)
       IN  /\ objs' = O
           /\ managers' = W.M
           /\ hooks' = W.log
           /\ added' = Replay(O, added, W.log)
           /\ UNCHANGED << clock, iters, timer_history >>
           /\ op' = Op("spawn_object", NoneStr, "ClickableObject", NoneStr, obj)
    /\ UNCHANGED << scene, object_manager, next_scene, saved_scenes, scenes, err,
                    first_request, parked >>

\* event_manager.check_events(events) on the active manager, handlers running
check_events_live(events) ==
    /\ err = "none"
    /\ LET P == EventsPass([O |-> objs,
                            W |-> [M |-> managers, err |-> "none", log |-> << >>]],
                           object_manager, events, 1)
       IN  /\ objs' = P.O
           /\ managers' = P.W.M
           /\ err' = P.W.err
           /\ hooks' = P.W.log
           /\ added' = Replay(P.O, added, SelectSeq(P.W.log, LAMBDA c : c[1] # "events"))
    /\ UNCHANGED << clock, iters, timer_history >>
    /\ op' = Op("check_events", NoneStr, NoneStr, events, None)
    /\ UNCHANGED << scene, object_manager, next_scene, saved_scenes, scenes,
                    first_request, parked >>

NextHandlers ==
    \/ \E b \in HandlerBehaviours : spawn_listener(b)
    \/ \E b \in Batches : check_events_live(b)

SpecHandlers == Init /\ [][NextHandlers]_vars

\* ---------------------------------------------------------- dispatch claims
\* C18: in a check_events that raises nothing, whatever the handlers unsubscribe
\* or destroy, every listener that is subscribed to an event's kind before and
\* after the call receives that event exactly once, and the listeners that
\* receive it do so in subscription order.
C18_NoEventDropped ==
    [][ (op'.name = "check_events" /\ err' = "none")
            => LET L == managers[object_manager].listeners
                   L2 == managers'[object_manager].listeners
                   events == op'.kwargs
               IN  \A e \in 1..Len(events) :
                      /\ \A x \in 1..Len(objs) :
                            (/\ Contains(Subscribers(L, events[e]), x)
                             /\ Contains(Subscribers(L2, events[e]), x))
                               => Count(hooks', << "events", x, e >>) = 1
                      /\ SelectSeq(hooks', LAMBDA c : c[1] = "events" /\ c[3] = e)
                            = SelectSeq([i \in 1..Len(Subscribers(L, events[e])) |->
                                            << "events", Subscribers(L, events[e])[i], e >>],
                                        LAMBDA c : Contains(hooks', c))
      ]_vars

\* ================================================================= iterators
MaxIters == 1

\* isinstance(obj, object_type) over the class hierarchy of root.py
Bases(cls) ==
    CASE cls = "GameObject" -> {"GameObject"}
      [] cls = "DrawableObject" -> {"DrawableObject", "GameObject"}
      [] cls = "ClickableObject" -> {"ClickableObject", "DrawableObject", "GameObject"}
      [] cls = "Timer" -> {"Timer", "GameObject"}

isinstance(O, obj, object_type) == object_type \in Bases(O[obj].cls)

\* GameObjectIterator.__init__; idx counts from 0 as in the source
NewIterator(m, object_type) ==
    [idx |-> 0, object_manager |-> m, object_type |-> object_type,
     number_of_objects |-> Len(managers[m].objects)]

\* GameObjectIterator.__next__ from index i of range(self.idx, number_of_objects):
\* [it, result, obj]; objects[i] past the end of the list raises IndexError
RECURSIVE IteratorNext(_, _, _, _)
IteratorNext(O, objects, it, i) ==
    IF i >= it.number_of_objects
    THEN [it |-> it, result |-> "StopIteration", obj |-> None]
    ELSE IF i >= Len(objects)
    THEN [it |-> it, result |-> "IndexError", obj |-> None]
    ELSE IF isinstance(O, objects[i + 1], it.object_type)
    THEN [it |-> [it EXCEPT !.idx = i + 1], result |-> "return", obj |-> objects[i + 1]]
    ELSE IteratorNext(O, objects, it, i + 1)

\* object_manager.get_objects_of_type(object_type) on the active manager
get_objects_of_type(object_type) ==
    /\ err = "none"
    /\ Len(iters) < MaxIters
    /\ iters' = Append(iters, NewIterator(object_manager, object_type))
    /\ hooks' = << >>
    /\ op' = Op("get_objects_of_type", NoneStr, object_type, NoneStr, Len(iters) + 1)
    /\ UNCHANGED << scene, object_manager, next_scene, saved_scenes, scenes, managers, objs,
                    err, first_request, parked, added, clock, timer_history >>

\* next(it)
iterator_next(it) ==
    /\ err = "none"
    /\ it \in 1..Len(iters)
    /\ LET r == IteratorNext(objs, managers[iters[it].object_manager].objects,
                             iters[it], iters[it].idx)
       IN  /\ iters' = [iters EXCEPT ![it] = r.it]
           /\ err' = IF r.result = "IndexError" THEN "IndexError" ELSE "none"
           /\ hooks' = << << r.result, r.obj >> >>
    /\ op' = Op("next", NoneStr, NoneStr, NoneStr, it)
    /\ UNCHANGED << scene, object_manager, next_scene, saved_scenes, scenes, managers, objs,
                    first_request, parked, added, clock, timer_history >>

\* the live list is built, then iterators are made and advanced while objects
\* are removed
NextIter ==
    \/ \E c \in ObjectClasses : iters = << >> /\ construct(c[1], c[2])
    \/ \E o \in ObjectIds : iters = << >> /\ add_object(o, NoneStr)
    \/ \E o \in ObjectIds : remove_object(o)
    \/ \E T \in {"GameObject", "ClickableObject"} : get_objects_of_type(T)
    \/ \E it \in 1..MaxIters : iterator_next(it)

SpecIter == Init /\ [][NextIter]_vars

\* ---------------------------------------------------------- iterator claims
\* C19: whatever was removed since the iterator was made, an advance raises no
\* error: it returns an object of the iterator's type that is in the live list
\* now, at an index below the length captured at creation, or it signals the
\* end of the sequence.
C19_IteratorSafe ==
    [][ (op'.name = "next")
            => LET it == iters[op'.obj]
                   objects == managers[it.object_manager].objects
               IN  /\ err' = "none"
                   /\ \/ hooks' = << << "StopIteration", None >> >>
                      \/ \E i \in 1..Len(objects) :
                            /\ i <= it.number_of_objects
                            /\ hooks' = << << "return", objects[i] >> >>
                            /\ isinstance(objs, objects[i], it.object_type)
      ]_vars

\* ------------------------------------------------------ registration claims
\* C20: add_object on an object that is not registered, whose descendants are
\* registered at most once each, leaves the object and every descendant exactly
\* once in the live list: children that are registered already are not
\* registered again.
C20_NoDoubleRegistration ==
    [][ (/\ op'.name = "add_object"
         /\ ~Contains(managers[objs[op'.obj].object_manager].objects, op'.obj)
         /\ \A d \in Subtree(objs, op'.obj) :
               Count(managers[objs[d].object_manager].objects, d) <= 1)
            => \A d \in Subtree(objs, op'.obj) :
                  Count(managers'[objs[d].object_manager].objects, d) = 1
      ]_vars

\* ================================================================== children
\* names given to add_child: two that look like automatic keys and one that
\* does not
ChildNames == {"0", "1", "a"}

\* one parent/child forest built with named and unnamed add_child calls
NextChildren ==
    \/ \E c \in ObjectClasses : construct(c[1], c[2])
    \/ \E p \in ObjectIds, c \in ObjectClasses, n \in ChildNames \cup {NoneStr} :
          add_child(p, c[1], c[2], n)

SpecChildren == Init /\ [][NextChildren]_vars

\* ------------------------------------------------------------ child claims
\* the key that the last, unnamed add_child gave to the new child
AutoKey == objs'[op'.obj].child_objects[Len(objs'[op'.obj].child_objects)].key

\* what every unnamed add_child does besides choosing the key
AddsOneChild ==
    LET p == op'.obj
        cs == objs[p].child_objects
        cs2 == objs'[p].child_objects
    IN  /\ Len(cs2) = Len(cs) + 1
        /\ \A i \in 1..Len(cs) : cs2[i] = cs[i]
        /\ cs2[Len(cs2)].obj = Len(objs')
        /\ objs'[Len(objs')].parent = p

\* C21 as stated: an unnamed add_child stores the child under the decimal string
\* of the smallest non-negative integer that is not a key of the parent, replaces
\* no child, and sets the child's parent.
C21_Original ==
    [][ (op'.name = "add_child" /\ op'.sname = NoneStr)
            => /\ AddsOneChild
               /\ \E n \in 0..Len(objs[op'.obj].child_objects) :
                     /\ AutoKey = ToString(n)
                     /\ ToString(n) \notin ChildKeys(objs, op'.obj)
                     /\ \A j \in 0..(n - 1) : ToString(j) \in ChildKeys(objs, op'.obj)
      ]_vars

\* C21 amended: an unnamed add_child stores the child under the decimal string of
\* the smallest integer that is not smaller than the number of children and is
\* not a key of the parent, replaces no child, and sets the child's parent.
C21_AutoKeyFromCount ==
    [][ (op'.name = "add_child" /\ op'.sname = NoneStr)
            => LET k == Len(objs[op'.obj].child_objects)
               IN  /\ AddsOneChild
                   /\ \E n \in k..(2 * k) :
                         /\ AutoKey = ToString(n)
                         /\ ToString(n) \notin ChildKeys(objs, op'.obj)
                         /\ \A j \in k..(n - 1) : ToString(j) \in ChildKeys(objs, op'.obj)
      ]_vars

\* a parent whose only child was named "1" got an unnamed child: key "2", while
\* "0" is free
C21_Witness ==
    /\ op.name = "add_child" /\ op.sname = NoneStr
    /\ Len(objs[op.obj].child_objects) = 2
    /\ objs[op.obj].child_objects[1].key = "1"
    /\ objs[op.obj].child_objects[2].key = "2"

\* ==================================================================== groups
MaxGroupSize == 2

TwoGroupNames == {"walls", "units"}

\* object_manager.add_object_to_group(obj, group_name) on the active manager
add_to_group(obj, group_name) ==
    /\ err = "none"
    /\ obj \in ObjectIds
    /\ group_name \in DOMAIN managers[object_manager].groups
          => Len(managers[object_manager].groups[group_name]) < MaxGroupSize
    /\ managers' = [managers EXCEPT ![object_manager] = add_object_to_group(@, obj, group_name)]
    /\ hooks' = << >>
    /\ UNCHANGED << clock, iters, timer_history >>
    /\ op' = Op("add_object_to_group", group_name, NoneStr, NoneStr, obj)
    /\ UNCHANGED << scene, object_manager, next_scene, saved_scenes, scenes, objs, err,
                    first_request, parked, added >>

NextGroups ==
    \/ construct("GameObject", 0)
    \/ \E o \in ObjectIds, g \in TwoGroupNames \cup {NoneStr} :
          /\ g \in DOMAIN managers[object_manager].groups
                => Len(managers[object_manager].groups[g]) < MaxGroupSize
          /\ add_object(o, g)
    \/ \E o \in ObjectIds, g \in TwoGroupNames : add_to_group(o, g)
    \/ \E o \in ObjectIds : remove_object(o)

SpecGroups == Init /\ [][NextGroups]_vars

\* ------------------------------------------------------------ group claims
\* C22: after remove_object on an object that is once in the live list, the object
\* is in no group of the manager, however often it was put into a group, and the
\* groups that did not hold it are unchanged.
C22_RemovedFromEveryGroup ==
    [][ (op'.name = "remove_object"
         /\ Count(managers[object_manager].objects, op'.obj) = 1)
            => LET G == managers[object_manager].groups
                   G2 == managers'[object_manager].groups
               IN  /\ err' = "none"
                   /\ DOMAIN G2 = DOMAIN G
                   /\ \A g \in DOMAIN G :
                         /\ ~Contains(G2[g], op'.obj)
                         /\ ~Contains(G[g], op'.obj) => G2[g] = G[g]
      ]_vars

\* ------------------------------------------------------ active manager claims
\* C23: once a scene is active, its own object_manager is the SceneManager's
\* active ObjectManager, through every request and every end_frame; an object
\* that scene code has just made belongs to that manager and is in its live list.
C23_SceneOnActiveManager ==
    /\ scene # None => scenes[scene].object_manager = object_manager
    /\ (op.name = "spawn_object")
          => /\ objs[op.obj].object_manager = object_manager
             /\ Contains(managers[object_manager].objects, op.obj)

\* a parked scene was restored while a later scene and a later manager exist
C23_Witness ==
    /\ op.name = "end_frame" /\ op.slot = "inst"
    /\ scene < Len(scenes) /\ object_manager < Len(managers)
    /\ scenes[Len(scenes)].object_manager # object_manager

\* C24: between save_object and the matching load_object no update() invokes
\* the action, whether the Timer was running or stopped before save_object; and
\* a Timer that was stopped before the pair is stopped after it.
C24_SuspendedNeverFires ==
    [][ LET t == op'.obj
            H == timer_history[t]
        IN  /\ (op'.name = "update" /\ H.suspended # "no") => ~Fired(t)
            /\ (op'.name = "load_object" /\ H.suspended = "stopped")
                  => ~objs'[t].running
      ]_vars

\* C25: every listener in the active manager's listener table, under every event
\* kind, is an object of that manager's live list; so an object that was
\* constructed and not registered is in no listener list, and after a go_to
\* has cleared the manager no object of the outgoing scene is one.
C25_ListenersAreLive ==
    LET m == managers[object_manager]
    IN  \A k \in DOMAIN m.listeners :
           \A i \in 1..Len(m.listeners[k]) : Contains(m.objects, m.listeners[k][i])

====
